---------------------------- MODULE Spec2Model ----------------------------
(***************************************************************************)
(* Model of the Highrise importer (highrise_importer.py) and of the Serlo   *)
(* entity model (serlo/model.py).                                           *)
(*                                                                          *)
(* An XML element is a record [tag, text, children]; a Python exception is  *)
(* an outcome record with ok = FALSE; Python's None is the empty tuple, and *)
(* an optional value v is <<v>>.  Person objects live in a heap (a sequence *)
(* of records) and are referred to by Ref(position), which models           *)
(* object identity.  A dict is a sequence of <<key, value>> pairs with      *)
(* distinct keys, in insertion order.                                       *)
(***************************************************************************)
EXTENDS Integers, Sequences, FiniteSets, TLC

VARIABLES
    people_xml,     \* the document api_call("people", ...) returns
    deals_xml,      \* the document api_call("deals", ...) returns
    pc,             \* position of run_script
    heap,           \* the Person objects parse_people built, by reference
    persons,        \* run_script's contact index: dict external id -> reference
    mentoring_spec, \* run_script's mentoring_spec: dict mentor id -> mentee ids
    units,          \* run_script's units
    database,       \* the batches handed to SerloDatabase.add_all, in order
    error,          \* the exception that ended the run, or None
    fn_in,          \* argument of the function under test (function specifications)
    fn_out          \* its outcome, or None while it has not been applied

vars == <<people_xml, deals_xml, pc, heap, persons, mentoring_spec, units,
          database, error, fn_in, fn_out>>

run_vars == <<people_xml, deals_xml, pc, heap, persons, mentoring_spec, units,
              database, error>>

-----------------------------------------------------------------------------
(* Python values *)

None == <<>>

Some(v) == <<v>>

\* The reference to the i-th object of the heap
Ref(i) == [ref |-> i]

Ok(v) == [ok |-> TRUE, val |-> v, exc |-> ""]

Raise(e) == [ok |-> FALSE, val |-> None, exc |-> e]

\* The first exception among a sequence of outcomes evaluated left to right,
\* or the sequence of their values.
RECURSIVE Collect(_)
Collect(rs) ==
    IF rs = <<>> THEN Ok(<<>>)
    ELSE IF ~rs[1].ok THEN rs[1]
    ELSE LET rest == Collect(Tail(rs))
         IN  IF rest.ok THEN Ok(<<rs[1].val>> \o rest.val) ELSE rest

Range(s) == {s[i] : i \in 1..Len(s)}

(* dict: a sequence of <<key, value>> pairs, keys distinct, insertion order *)

DictKeys(d) == {d[i][1] : i \in 1..Len(d)}

DictGet(d, k) == (CHOOSE i \in 1..Len(d) : d[i][1] = k)

DictValue(d, k) == d[DictGet(d, k)][2]

DictValues(d) == [i \in 1..Len(d) |-> d[i][2]]

\* Mutant of DictSet: an existing key keeps its value
DictSet_keep_first(d, k, v) ==
    IF k \in DictKeys(d) THEN d ELSE Append(d, <<k, v>>)

\* d[k] = v: an existing key keeps its place and takes the new value.
DictSet(d, k, v) ==
    IF k \in DictKeys(d)
    THEN [i \in 1..Len(d) |-> IF d[i][1] = k THEN <<k, v>> ELSE d[i]]
    ELSE Append(d, <<k, v>>)

RECURSIVE DictFrom(_, _)
DictFrom(d, pairs) ==
    IF pairs = <<>> THEN d
    ELSE DictFrom(DictSet(d, pairs[1][1], pairs[1][2]), Tail(pairs))

\* dict(pairs)
Dict(pairs) == DictFrom(<<>>, pairs)

-----------------------------------------------------------------------------
(* The raw document *)

\* An element: its tag, the text before its first child, the text after its
\* end tag (tail) and its children
Leaf(tag, text) == [tag |-> tag, text |-> text, tail |-> "", children |-> <<>>]

Node(tag, children) ==
    [tag |-> tag, text |-> "", tail |-> "", children |-> children]

\* The element as an indented document carries it: a line break before each
\* child and after the last one
RECURSIVE Indented(_)
Indented(xml) ==
    IF xml.children = <<>> THEN xml
    ELSE [xml EXCEPT !.text = "\n",
                     !.children = [i \in DOMAIN xml.children |->
                                      [Indented(xml.children[i]) EXCEPT !.tail = "\n"]]]

\* xml.findall(tag_name): the children with that tag, in document order
findall(tag_name, xml) ==
    SelectSeq(xml.children, LAMBDA c : c.tag = tag_name)

\* "".join(xml.itertext()): the text of the element, then for each child its
\* own itertext and its tail; the tail of xml itself is not part of it.
RECURSIVE itertext(_)
itertext(xml) ==
    LET RECURSIVE Join(_)
        Join(cs) ==
            IF cs = <<>> THEN ""
            ELSE itertext(cs[1]) \o cs[1].tail \o Join(Tail(cs))
    IN  xml.text \o Join(xml.children)

xml_text(xml) ==
    IF xml = None
    THEN Raise("TypeError: xml_text(): XML argument must not be 'None'")
    ELSE Ok(itertext(xml))

xml_find_upto2(tag_name, xml) ==
    IF xml = None
    THEN Raise("TypeError: xml_text(): XML argument must not be 'None'")
    ELSE LET results == findall(tag_name, xml)
         IN  IF results = <<>>
             THEN Raise("AssertionError: Child with tag '" \o tag_name \o "' not found.")
             ELSE IF ~(Len(results) < 3)
             THEN Raise("AssertionError: Too many children with tag '" \o tag_name \o "' found.")
             ELSE Ok(results[1])

\* The messages are the source's, with its backquotes written as quotes.
xml_find(tag_name, xml) ==
    IF xml = None
    THEN Raise("TypeError: xml_text(): XML argument must not be 'None'")
    ELSE LET results == findall(tag_name, xml)
         IN  IF results = <<>>
             THEN Raise("AssertionError: Child with tag '" \o tag_name \o "' not found.")
             ELSE IF ~(Len(results) < 2)
             THEN Raise("AssertionError: Too many children with tag '" \o tag_name \o "' found.")
             ELSE Ok(results[1])

\* xml_text(xml_find(tag_name, xml))
find_text(tag_name, xml) ==
    LET text(r) == IF r.ok THEN xml_text(r.val) ELSE r
    IN  text(xml_find(tag_name, xml))

-----------------------------------------------------------------------------
(* Program constants *)

TOKEN_VARIABLE == "HIGHRISE_API_TOKEN"

PROJECT_ID == "6436430"

SUPPORT_UNIT_ID == "4849968"

MENTORING_DEAL_ID == "6438903"

MEMBER_ID == "5360080"

SUBJECT_DATA_OVERVIEW == "1224165"

SUBJECT_DATA_STORAGE == "1258882"

SUBJECT_DATA_SLACK == "1311275"

\* UnitType
project == "project"

support_unit == "support_unit"

\* Tag.TAGS, in the order of the dict literal
TAGS ==
    << <<"Pause", 5979171>>,
       <<"Intern", 5363523>>,
       <<"Newcomer", 5978316>>,
       <<"Intern (School)", 5417900>> >>

-----------------------------------------------------------------------------
(* Entities: the constructors of serlo.model, the surrogate id unset *)

Email(address, location) ==
    [kind |-> "Email", id |-> None, address |-> address, location |-> location]

PhoneNumber(number, location) ==
    [kind |-> "PhoneNumber", id |-> None, number |-> number, location |-> location]

Tag(tag_id) ==
    [kind |-> "Tag", id |-> None, tag_id |-> tag_id]

Person(first_name, last_name, emails, phone_numbers, tags) ==
    [kind |-> "Person", id |-> None, first_name |-> first_name,
     last_name |-> last_name, emails |-> emails,
     phone_numbers |-> phone_numbers, tags |-> tags, mentor |-> None]

WorkingUnit(name, description, overview_document, storage_url, slack_url, unit_type, person_responsible, participants) ==
    [kind |-> "WorkingUnit", id |-> None, name |-> name,
     description |-> description, unit_type |-> unit_type,
     person_responsible |-> person_responsible,
     participants |-> participants,
     overview_document |-> overview_document,
     storage_url |-> storage_url, slack_url |-> slack_url]

-----------------------------------------------------------------------------
(* _SerloEntity.__eq__ and Person.name.  Here an entity holds the entities   *)
(* it refers to themselves (a unit its persons), not references.             *)

\* e._properties, and (kind, id, _properties) for the entities inside it:
\* tuples and lists compare element by element with __eq__.
RECURSIVE properties(_), eq_key(_)
properties(e) ==
    CASE e.kind = "Email" -> <<e.address, e.location>>
      [] e.kind = "PhoneNumber" -> <<e.number, e.location>>
      [] e.kind = "Tag" -> <<e.tag_id>>
      [] e.kind = "Person" ->
            <<e.first_name, e.last_name,
              [i \in DOMAIN e.emails |-> eq_key(e.emails[i])],
              [i \in DOMAIN e.phone_numbers |-> eq_key(e.phone_numbers[i])],
              [i \in DOMAIN e.tags |-> eq_key(e.tags[i])]>>
      [] e.kind = "WorkingUnit" ->
            <<e.name, e.description, e.unit_type, eq_key(e.person_responsible),
              [i \in DOMAIN e.participants |-> eq_key(e.participants[i])],
              e.overview_document>>

eq_key(e) == <<e.kind, e.id, properties(e)>>

\* self == other; isinstance is the equality of the kinds, no entity class
\* having a subclass
entity_eq(self, other) ==
    /\ other # None
    /\ other.kind = self.kind
    /\ self.id = other.id
    /\ properties(self) = properties(other)

has_tag(person, tag_id) ==
    tag_id \in {person.tags[i].tag_id : i \in 1..Len(person.tags)}

\* sep.join(strings)
RECURSIVE join(_, _)
join(sep, strings) ==
    IF strings = <<>> THEN ""
    ELSE IF Len(strings) = 1 THEN strings[1]
    ELSE strings[1] \o sep \o join(sep, Tail(strings))

\* Mutant of Person_name: "Intern (School)" is not renamed
Person_name_unrenamed(person) ==
    LET known == SelectSeq(TAGS, LAMBDA t : has_tag(person, t[2]))
        tags == [i \in 1..Len(known) |-> known[i][1]]
    IN  person.first_name \o " " \o person.last_name \o
        (IF tags # <<>> THEN " (" \o join(", ", tags) \o ")" ELSE "")

\* Person.name
Person_name(person) ==
    LET known == SelectSeq(TAGS, LAMBDA t : has_tag(person, t[2]))
        tags == [i \in 1..Len(known) |->
                    IF known[i][1] = "Intern (School)" THEN "Intern" ELSE known[i][1]]
    IN  person.first_name \o " " \o person.last_name \o
        (IF tags # <<>> THEN " (" \o join(", ", tags) \o ")" ELSE "")

-----------------------------------------------------------------------------
(* Entity builders *)

\* The value of a decimal digit, -1 for any other character
Digit(c) ==
    CASE c = "0" -> 0 [] c = "1" -> 1 [] c = "2" -> 2 [] c = "3" -> 3
      [] c = "4" -> 4 [] c = "5" -> 5 [] c = "6" -> 6 [] c = "7" -> 7
      [] c = "8" -> 8 [] c = "9" -> 9 [] OTHER -> -1

\* The whitespace int() strips from both ends of its argument. The last three
\* strings hold the character itself: the vertical tab (U+000B), the next-line
\* control (U+0085) and the no-break space (U+00A0). The separators U+001C to
\* U+001F are not stripped. The whitespace above U+00FF cannot stand in a
\* string here.
Whitespace == {" ", "\t", "\n", "\r", "\f", "", "", " "}

RECURSIVE strip(_)
strip(text) ==
    IF text = "" THEN text
    ELSE IF SubSeq(text, 1, 1) \in Whitespace
    THEN strip(SubSeq(text, 2, Len(text)))
    ELSE IF SubSeq(text, Len(text), Len(text)) \in Whitespace
    THEN strip(SubSeq(text, 1, Len(text) - 1))
    ELSE text

\* The value of the digits of text from position i on, acc being the value of
\* those before, which end in a digit; an underscore may stand between two
\* digits. -1 when another character occurs.
RECURSIVE numeral(_, _, _)
numeral(text, i, acc) ==
    IF i > Len(text) THEN acc
    ELSE IF SubSeq(text, i, i) = "_"
    THEN IF i < Len(text) /\ Digit(SubSeq(text, i + 1, i + 1)) >= 0
         THEN numeral(text, i + 1, acc)
         ELSE -1
    ELSE IF Digit(SubSeq(text, i, i)) >= 0
    THEN numeral(text, i + 1, acc * 10 + Digit(SubSeq(text, i, i)))
    ELSE -1

\* int(text): surrounding whitespace, an optional sign, decimal digits with
\* single underscores between them; anything else is a ValueError. The
\* decimal digits of other scripts, which int() reads too, lie above U+00FF
\* and cannot stand in a string here. The value is a 32-bit integer: a
\* numeral above 2147483647, which the code converts, has no value here.
int(text) ==
    LET stripped == strip(text)
        signed == stripped # "" /\ SubSeq(stripped, 1, 1) \in {"+", "-"}
        digits == IF signed THEN SubSeq(stripped, 2, Len(stripped)) ELSE stripped
        n == IF digits # "" /\ Digit(SubSeq(digits, 1, 1)) >= 0
             THEN numeral(digits, 2, Digit(SubSeq(digits, 1, 1)))
             ELSE -1
    IN  IF n < 0 THEN Raise("ValueError: invalid literal for int() with base 10")
        ELSE IF signed /\ SubSeq(stripped, 1, 1) = "-" THEN Ok(0 - n)
        ELSE Ok(n)

parse_email(xml) ==
    LET r == Collect(<<find_text("address", xml), find_text("location", xml)>>)
    IN  IF r.ok THEN Ok(Email(r.val[1], r.val[2])) ELSE r

parse_phone_number(xml) ==
    LET r == Collect(<<find_text("number", xml), find_text("location", xml)>>)
    IN  IF r.ok THEN Ok(PhoneNumber(r.val[1], r.val[2])) ELSE r

parse_tag(xml) ==
    LET t == find_text("id", xml)
        n == int(t.val)
    IN  IF ~t.ok THEN t ELSE IF ~n.ok THEN n ELSE Ok(Tag(n.val))

\* The pair (external id, Person), or the first exception in evaluation order.
parse_person(xml) ==
    LET contact_data == xml_find("contact-data", xml)
        \* [parse_email(e) for e in xml_find("email-addresses", contact_data)]
        emails ==
            LET r == xml_find("email-addresses", contact_data.val)
            IN  IF ~r.ok THEN r
                ELSE Collect([i \in DOMAIN r.val.children |->
                                 parse_email(r.val.children[i])])
        phone_numbers ==
            LET r == xml_find("phone-numbers", contact_data.val)
            IN  IF ~r.ok THEN r
                ELSE Collect([i \in DOMAIN r.val.children |->
                                 parse_phone_number(r.val.children[i])])
        tags ==
            LET r == xml_find("tags", xml)
            IN  IF ~r.ok THEN r
                ELSE Collect([i \in DOMAIN r.val.children |->
                                 parse_tag(r.val.children[i])])
        pair(r) ==
            IF ~r.ok THEN r
            ELSE Ok(<<r.val[1], Person(r.val[2], r.val[3], r.val[4], r.val[5], r.val[6])>>)
    IN  IF ~contact_data.ok THEN contact_data
        ELSE pair(Collect(<<find_text("id", xml),
                            find_text("first-name", xml),
                            find_text("last-name", xml),
                            emails, phone_numbers, tags>>))

parse_people(xml) ==
    LET people == findall("person", xml)
    IN  Collect([i \in DOMAIN people |-> parse_person(people[i])])

\* xml.find(tag_name): the first child with that tag, or None
find(tag_name, xml) ==
    LET results == findall(tag_name, xml)
    IN  IF results = <<>> THEN None ELSE results[1]

\* The dict of the custom fields of a deal. An element without children is
\* false, so an empty or absent subject_datas gives the empty dict.
parse_subject_datas(xml) ==
    LET subject_datas == find("subject_datas", xml)
        pair(child) ==
            LET r == Collect(<<find_text("subject_field_id", child),
                               find_text("value", child)>>)
            IN  IF r.ok THEN Ok(<<r.val[1], r.val[2]>>) ELSE r
    IN  IF subject_datas # None /\ subject_datas.children # <<>>
        THEN LET children == findall("subject_data", subject_datas)
                 r == Collect([i \in DOMAIN children |-> pair(children[i])])
             IN  IF r.ok THEN Ok(Dict(r.val)) ELSE r
        ELSE Ok(<<>>)

\* d.get(k, default)
get(d, k, default) == IF k \in DictKeys(d) THEN DictValue(d, k) ELSE default

\* [xml_text(xml_find("id", x)) for x in xml_find("parties", xml)]
parse_party_ids(xml) ==
    LET parties == xml_find("parties", xml)
    IN  IF ~parties.ok THEN parties
        ELSE Collect([i \in DOMAIN parties.val.children |->
                         find_text("id", parties.val.children[i])])

\* Mutant of subscript: d.get(k), None for a missing key
subscript_as_get(d, k) ==
    IF k \in DictKeys(d) THEN Ok(DictValue(d, k)) ELSE Ok(None)

\* d[k]: the value, or KeyError
subscript(d, k) ==
    IF k \in DictKeys(d) THEN Ok(DictValue(d, k)) ELSE Raise("KeyError")

\* Mutant of unit_type_of: every category but the project id is a support unit
unit_type_of_two_way(category_id) ==
    IF category_id = PROJECT_ID THEN Some(project) ELSE Some(support_unit)

\* The unit type of a category id, or None for any other category
unit_type_of(category_id) ==
    IF category_id = PROJECT_ID THEN Some(project)
    ELSE IF category_id = SUPPORT_UNIT_ID THEN Some(support_unit)
    ELSE None

\* Mutant of resolve_participants: [persons.get(x) for x in participant_ids]
resolve_participants_unfiltered(index, participant_ids) ==
    [i \in DOMAIN participant_ids |-> get(index, participant_ids[i], None)]

\* [persons[x] for x in participant_ids if x in persons]
resolve_participants(index, participant_ids) ==
    LET found == SelectSeq(participant_ids, LAMBDA x : x \in DictKeys(index))
    IN  [i \in DOMAIN found |-> DictValue(index, found[i])]

\* An outcome whose value is None or Some(WorkingUnit); the unit refers to
\* its persons by reference. The KeyError of the index is caught, every other
\* exception leaves the function.
parse_working_unit(xml, index) ==
    LET category_id == find_text("category-id", xml)
        unit_type == unit_type_of(category_id.val)
        status == find_text("status", xml)
        subject_datas == parse_subject_datas(xml)
        party_id == find_text("party-id", xml)
        person_responsible == subscript(index, party_id.val)
        participant_ids == parse_party_ids(xml)
        name == find_text("name", xml)
        background == find_text("background", xml)
    IN  IF ~category_id.ok THEN category_id
        ELSE IF unit_type = None THEN Ok(None)
        ELSE IF ~status.ok THEN status
        ELSE IF status.val # "pending" THEN Ok(None)
        ELSE IF ~subject_datas.ok THEN subject_datas
        ELSE IF ~party_id.ok THEN party_id
        ELSE IF ~person_responsible.ok THEN Ok(None)
        ELSE IF ~participant_ids.ok THEN participant_ids
        ELSE IF ~name.ok THEN name
        ELSE IF ~background.ok THEN background
        ELSE Ok(Some(WorkingUnit(
                 name.val, background.val,
                 get(subject_datas.val, SUBJECT_DATA_OVERVIEW, ""),
                 get(subject_datas.val, SUBJECT_DATA_STORAGE, ""),
                 get(subject_datas.val, SUBJECT_DATA_SLACK, ""),
                 unit_type[1],
                 person_responsible.val,
                 resolve_participants(index, participant_ids.val))))

RECURSIVE Flatten(_)
Flatten(ss) == IF ss = <<>> THEN <<>> ELSE ss[1] \o Flatten(Tail(ss))

parse_working_units(xml, index) ==
    LET one(x) == parse_working_unit(x, index)
        results == Collect([i \in DOMAIN xml.children |-> one(xml.children[i])])
    IN  IF results.ok THEN Ok(Flatten(results.val)) ELSE results

\* The mentoring deals as (mentor id, mentee ids), made into a dict: deals of
\* one mentor id collapse into the last of them, at the place of the first.
parse_mentoring(xml) ==
    LET one(deal) ==
            LET category_id == find_text("category-id", deal)
                r == Collect(<<find_text("party-id", deal), parse_party_ids(deal)>>)
            IN  IF ~category_id.ok THEN category_id
                ELSE IF category_id.val # MENTORING_DEAL_ID THEN Ok(<<>>)
                ELSE IF ~r.ok THEN r
                ELSE Ok(<< <<r.val[1], r.val[2]>> >>)
        result == Collect([i \in DOMAIN xml.children |-> one(xml.children[i])])
    IN  IF result.ok THEN Ok(Dict(Flatten(result.val))) ELSE result

-----------------------------------------------------------------------------
(* The mentorship pass of run_script *)

\* The (mentor id, mentee id) pairs in the order the two loops visit them
mentoring_pairs(spec) ==
    Flatten([i \in 1..Len(spec) |->
                [j \in 1..Len(spec[i][2]) |-> <<spec[i][1], spec[i][2][j]>>]])

\* Mutant of assign_mentor: the mentee gets the mentor's own mentor when the
\* mentor has one
assign_mentor_chained(h, index, mentor_id, mentee_id) ==
    LET mentor == get(index, mentor_id, None)
        mentee == get(index, mentee_id, None)
    IN  IF mentor # None /\ mentee # None
        THEN [h EXCEPT ![mentee.ref].mentor =
                 IF h[mentor.ref].mentor # None THEN h[mentor.ref].mentor
                 ELSE mentor]
        ELSE h

\* One iteration of the inner loop: persons.get on both ids, and the
\* assignment when both are found (a Person object is true).
assign_mentor(h, index, mentor_id, mentee_id) ==
    LET mentor == get(index, mentor_id, None)
        mentee == get(index, mentee_id, None)
    IN  IF mentor # None /\ mentee # None
        THEN [h EXCEPT ![mentee.ref].mentor = mentor]
        ELSE h

\* Mutant of assign_mentors: the first unresolved pair ends the pass
RECURSIVE assign_mentors_until_gap(_, _, _)
assign_mentors_until_gap(h, index, pairs) ==
    IF pairs = <<>> THEN h
    ELSE IF {pairs[1][1], pairs[1][2]} \subseteq DictKeys(index)
    THEN assign_mentors_until_gap(
             assign_mentor(h, index, pairs[1][1], pairs[1][2]), index, Tail(pairs))
    ELSE h

RECURSIVE assign_mentors(_, _, _)
assign_mentors(h, index, pairs) ==
    IF pairs = <<>> THEN h
    ELSE assign_mentors(assign_mentor(h, index, pairs[1][1], pairs[1][2]),
                        index, Tail(pairs))

-----------------------------------------------------------------------------
(* SerloDatabase *)

\* add_all(instances): the batch is added to the session and committed
add_all(db, instances) == Append(db, instances)

(* The session behind add_all. An instance is a reference to a Person of the *)
(* heap h, or a WorkingUnit of the units us built so far; db is the sequence *)
(* of the batches handed to add_all.                                         *)

IsPerson(o) == DOMAIN o = {"ref"}

\* The instances the relationships of o hold in memory: a person's mentor
\* and, by back_populates, its managing_units and participating_units; a
\* unit's person_responsible and participants. (mentees is filled by the
\* database only: setting mentor does not populate it.)
related(h, us, o) ==
    IF IsPerson(o)
    THEN (IF h[o.ref].mentor = None THEN {} ELSE {h[o.ref].mentor})
         \cup {us[j] : j \in {j \in 1..Len(us) :
                                  \/ us[j].person_responsible = o
                                  \/ o \in Range(us[j].participants)}}
    ELSE {o.person_responsible} \cup Range(o.participants)

\* session.add on each of todo: the save-update cascade follows the
\* relationships and stops at what the session already holds.
RECURSIVE session_add(_, _, _, _)
session_add(h, us, session, todo) ==
    IF todo = {} THEN session
    ELSE LET o == CHOOSE x \in todo : TRUE
         IN  IF o \in session
             THEN session_add(h, us, session, todo \ {o})
             ELSE session_add(h, us, session \cup {o},
                              (todo \ {o}) \cup related(h, us, o))

\* What the database holds after the add_all calls of db
RECURSIVE stored(_, _, _)
stored(h, us, db) ==
    IF db = <<>> THEN {}
    ELSE session_add(h, us, stored(h, us, SubSeq(db, 1, Len(db) - 1)),
                     Range(db[Len(db)]))

\* SerloDatabase.persons
SerloDatabase_persons(h, us, db) == {o \in stored(h, us, db) : IsPerson(o)}

\* SerloDatabase.working_units
working_units(h, us, db) == {o \in stored(h, us, db) : ~IsPerson(o)}

\* Mutant of projects: the units are not filtered by their type
projects_unfiltered(h, us, db) == working_units(h, us, db)

projects(h, us, db) ==
    {p \in working_units(h, us, db) : p.unit_type = project}

support_units(h, us, db) ==
    {p \in working_units(h, us, db) : p.unit_type = support_unit}

\* Mutant of mentees: the relationship joins in the direction of mentor
mentees_towards_mentor(h, us, db, q) ==
    IF q \in stored(h, us, db)
    THEN {p \in SerloDatabase_persons(h, us, db) : h[q.ref].mentor = p}
    ELSE {}

\* q.mentees: for a stored q the stored persons whose mentor is q (the rows
\* whose mentor_id is q's id), for any other q the empty list it has in memory
mentees(h, us, db, q) ==
    IF q \in stored(h, us, db)
    THEN {p \in SerloDatabase_persons(h, us, db) : h[p.ref].mentor = q}
    ELSE {}

-----------------------------------------------------------------------------
(* run_script, from the construction of the database on *)

\* An uncaught exception ends the run; where names the call that raised it.
Fail(where, exc) ==
    /\ pc' = "failed"
    /\ error' = Some([where |-> where, exc |-> exc])

ParsePeople ==
    /\ pc = "start"
    /\ \E r \in {parse_people(people_xml)} :
           IF r.ok
           THEN /\ heap' = [i \in 1..Len(r.val) |-> r.val[i][2]]
                /\ persons' = Dict([i \in 1..Len(r.val) |-> <<r.val[i][1], Ref(i)>>])
                /\ pc' = "people_parsed"
                /\ error' = error
           ELSE /\ Fail("parse_people", r.exc)
                /\ UNCHANGED <<heap, persons>>
    /\ UNCHANGED <<people_xml, deals_xml, mentoring_spec, units, database,
                   fn_in, fn_out>>

ParseMentoring ==
    /\ pc = "people_parsed"
    /\ \E r \in {parse_mentoring(deals_xml)} :
           IF r.ok
           THEN /\ mentoring_spec' = r.val
                /\ pc' = "mentoring_parsed"
                /\ error' = error
           ELSE /\ Fail("parse_mentoring", r.exc)
                /\ UNCHANGED mentoring_spec
    /\ UNCHANGED <<people_xml, deals_xml, heap, persons, units, database,
                   fn_in, fn_out>>

AssignMentors ==
    /\ pc = "mentoring_parsed"
    /\ heap' = assign_mentors(heap, persons, mentoring_pairs(mentoring_spec))
    /\ pc' = "mentors_assigned"
    /\ UNCHANGED <<people_xml, deals_xml, persons, mentoring_spec, units,
                   database, error, fn_in, fn_out>>

\* Mutant of ParseWorkingUnits: the contacts are stored before the units are
\* parsed
ParseWorkingUnits_after_store ==
    /\ pc = "mentors_assigned"
    /\ \E r \in {parse_working_units(deals_xml, persons)} :
           IF r.ok
           THEN /\ units' = r.val
                /\ pc' = "persons_stored"
                /\ error' = error
           ELSE /\ Fail("parse_working_units", r.exc)
                /\ UNCHANGED units
    /\ database' = add_all(database, DictValues(persons))
    /\ UNCHANGED <<people_xml, deals_xml, heap, persons, mentoring_spec,
                   fn_in, fn_out>>

ParseWorkingUnits ==
    /\ pc = "mentors_assigned"
    /\ \E r \in {parse_working_units(deals_xml, persons)} :
           IF r.ok
           THEN /\ units' = r.val
                /\ pc' = "units_parsed"
                /\ error' = error
           ELSE /\ Fail("parse_working_units", r.exc)
                /\ UNCHANGED units
    /\ UNCHANGED <<people_xml, deals_xml, heap, persons, mentoring_spec,
                   database, fn_in, fn_out>>

\* Mutant of AddPersons: every parsed Person is stored, indexed or not
AddPersons_every_parsed ==
    /\ pc = "units_parsed"
    /\ database' = add_all(database, [i \in 1..Len(heap) |-> Ref(i)])
    /\ pc' = "persons_stored"
    /\ UNCHANGED <<people_xml, deals_xml, heap, persons, mentoring_spec, units,
                   error, fn_in, fn_out>>

AddPersons ==
    /\ pc = "units_parsed"
    /\ database' = add_all(database, DictValues(persons))
    /\ pc' = "persons_stored"
    /\ UNCHANGED <<people_xml, deals_xml, heap, persons, mentoring_spec, units,
                   error, fn_in, fn_out>>

AddUnits ==
    /\ pc = "persons_stored"
    /\ database' = add_all(database, units)
    /\ pc' = "done"
    /\ UNCHANGED <<people_xml, deals_xml, heap, persons, mentoring_spec, units,
                   error, fn_in, fn_out>>

Next ==
    \/ ParsePeople
    \/ ParseMentoring
    \/ AssignMentors
    \/ ParseWorkingUnits
    \/ AddPersons
    \/ AddUnits

\* The state after database = SerloDatabase(database_file), the two remote
\* documents being those in People and Deals.
RunInit(People, Deals) ==
    /\ people_xml \in People
    /\ deals_xml \in Deals
    /\ pc = "start"
    /\ heap = <<>>
    /\ persons = <<>>
    /\ mentoring_spec = <<>>
    /\ units = <<>>
    /\ database = <<>>
    /\ error = None
    /\ fn_in = None
    /\ fn_out = None

-----------------------------------------------------------------------------
(* The remote documents *)

MaxDeals == 2

MaxMentoringDeals == 3

\* The sequences over S of length at most n
SeqsUpTo(S, n) == UNION {[1..k -> S] : k \in 0..n}

\* The sequences over S without repetition
Arrangements(S) ==
    {q \in SeqsUpTo(S, Cardinality(S)) :
        \A i, j \in 1..Len(q) : i # j => q[i] # q[j]}

person_xml(id, first_name, last_name, emails, phone_numbers, tags) ==
    Node("person",
         <<Leaf("id", id), Leaf("first-name", first_name),
           Leaf("last-name", last_name),
           Node("contact-data",
                <<Node("email-addresses", emails),
                  Node("phone-numbers", phone_numbers)>>),
           Node("tags", tags)>>)

party_xml(id) == Node("party", <<Leaf("id", id)>>)

subject_data_xml(field_id, value) ==
    Node("subject_data",
         <<Leaf("subject_field_id", field_id), Leaf("value", value)>>)

deal_xml(category_id, status, party_id, party_ids, subject_datas) ==
    Node("deal",
         <<Leaf("name", "unit " \o party_id),
           Leaf("background", "about"),
           Leaf("category-id", category_id),
           Leaf("status", status),
           Leaf("party-id", party_id),
           Node("parties", [i \in DOMAIN party_ids |-> party_xml(party_ids[i])]),
           Node("subject_datas", subject_datas)>>)

\* xml without its children tagged tag_name
Without(xml, tag_name) ==
    [xml EXCEPT !.children = SelectSeq(xml.children, LAMBDA c : c.tag # tag_name)]

\* xml with its children tagged tag_name once more at the end
Twice(xml, tag_name) ==
    [xml EXCEPT !.children = xml.children \o findall(tag_name, xml)]

email_xml(address, location) ==
    Node("email-address", <<Leaf("address", address), Leaf("location", location)>>)

phone_xml(number, location) ==
    Node("phone-number", <<Leaf("number", number), Leaf("location", location)>>)

tag_xml(id) == Node("tag", <<Leaf("id", id)>>)

\* One well-formed person per external id; "C" carries an email, a phone
\* number and a tag, and is indented; its tag id stands between a no-break
\* space and a next-line control.
PersonNodes ==
    {person_xml(id, "Markus", "Miller " \o id, <<>>, <<>>, <<>>) : id \in {"A", "B"}}
    \cup {Indented(person_xml("C", "Yannick", "Miller C",
                              <<email_xml("c@example.org", "Work")>>,
                              <<phone_xml("+49017867", "Work")>>,
                              <<tag_xml(" 5979171")>>))}

\* People documents with one shape error, or with a tag id that is no integer
MalformedPeople ==
    LET a == person_xml("A", "Markus", "Miller A", <<>>, <<>>, <<>>)
        b == person_xml("B", "Markus", "Miller B", <<>>, <<>>, <<>>)
        e == person_xml("C", "Yannick", "Miller C",
                        <<Without(email_xml("c@example.org", "Work"), "location")>>,
                        <<>>, <<>>)
        t == person_xml("B", "Markus", "Miller B", <<>>, <<>>, <<tag_xml("4.2")>>)
    IN  {Node("people", <<a, Without(b, "first-name")>>),
         Node("people", <<Twice(a, "id"), b>>),
         Node("people", <<a, e>>),
         Node("people", <<a, t>>)}

\* Well-formed deals of the two working-unit categories and of another one,
\* pending or not, the responsible party "A", the parties among "B" and "C"
UnitDeals ==
    {deal_xml(PROJECT_ID, "pending", "A", ps, <<>>) : ps \in Arrangements({"B", "C"})}
    \cup {deal_xml(SUPPORT_UNIT_ID, "pending", "A", <<"C", "B">>,
                   <<subject_data_xml(SUBJECT_DATA_OVERVIEW, "overview"),
                     subject_data_xml(SUBJECT_DATA_STORAGE, "storage"),
                     subject_data_xml(SUBJECT_DATA_SLACK, "slack")>>)}
    \cup {deal_xml(SUPPORT_UNIT_ID, "won", "A", <<"B">>, <<>>)}
    \cup {deal_xml("999", "pending", "A", <<"B">>, <<>>)}

\* Well-formed mentoring deals: the mentor "A" or "B", the mentees among "B"
\* and "C"
MentoringDeals ==
    {deal_xml(MENTORING_DEAL_ID, "pending", m, ps, <<>>) :
        m \in {"A", "B"}, ps \in {<<"C">>, <<"B", "C">>}}

\* Deals with one shape error: a required child missing or duplicated
MalformedDeals ==
    LET unit == deal_xml(PROJECT_ID, "pending", "A", <<"B">>, <<>>)
        mentoring == deal_xml(MENTORING_DEAL_ID, "pending", "A", <<"B">>, <<>>)
    IN  {Without(unit, "name"),
         Twice(unit, "background"),
         Without(unit, "parties"),
         Without(unit, "category-id"),
         Without(mentoring, "party-id"),
         Without(deal_xml("999", "pending", "A", <<"B">>, <<>>), "status"),
         Without(deal_xml(SUPPORT_UNIT_ID, "won", "A", <<"B">>, <<>>), "name")}

PeopleDocs == {Node("people", q) : q \in Arrangements(PersonNodes)}

DealDocs(nodes, n) == {Node("deals", q) : q \in SeqsUpTo(nodes, n)}

Init ==
    RunInit(PeopleDocs \cup MalformedPeople,
            DealDocs(UnitDeals \cup MentoringDeals \cup MalformedDeals, MaxDeals))

Spec == Init /\ [][Next]_vars

\* Runs over well-formed people and up to MaxMentoringDeals mentoring deals
InitMentoring ==
    RunInit(PeopleDocs, DealDocs(MentoringDeals, MaxMentoringDeals))

SpecMentoring == InitMentoring /\ [][Next]_vars

-----------------------------------------------------------------------------
(* Vocabulary of the properties: what the input documents say, read off the  *)
(* documents themselves.                                                     *)

Deals == deals_xml.children

\* The texts of the children of xml tagged tag_name
Texts(xml, tag_name) ==
    LET cs == findall(tag_name, xml) IN [i \in 1..Len(cs) |-> itertext(cs[i])]

\* xml has exactly one child tagged tag_name, and its text is in S
OneIn(xml, tag_name, S) ==
    Len(Texts(xml, tag_name)) = 1 /\ Texts(xml, tag_name)[1] \in S

\* The ids listed under the parties of a deal, in input order (none when the
\* deal has no parties child)
PartyIdsOf(deal) ==
    IF findall("parties", deal) = <<>> THEN <<>>
    ELSE LET ps == findall("parties", deal)[1].children
         IN  [i \in 1..Len(ps) |-> Texts(ps[i], "id")[1]]

IndexKeys == DictKeys(persons)

IndexValues == Range(DictValues(persons))

IsUnitDeal(deal) == OneIn(deal, "category-id", {PROJECT_ID, SUPPORT_UNIT_ID})

IsPending(deal) == OneIn(deal, "status", {"pending"})

IsMentoringDeal(deal) == OneIn(deal, "category-id", {MENTORING_DEAL_ID})

PartyResolves(deal) == OneIn(deal, "party-id", IndexKeys)

\* The deals a WorkingUnit is due for, in input order
EmittingDeals ==
    SelectSeq(Deals, LAMBDA d : IsUnitDeal(d) /\ IsPending(d) /\ PartyResolves(d))

\* parse_working_units has returned
UnitsParsed == pc \in {"units_parsed", "persons_stored", "done"}

\* The mentorship pass is over
MentorsAssigned ==
    \/ pc \in {"mentors_assigned", "units_parsed", "persons_stored", "done"}
    \/ pc = "failed" /\ error[1].where = "parse_working_units"

-----------------------------------------------------------------------------
(* C1: every WorkingUnit of the output has a person_responsible that is a    *)
(* value of the contact index, namely the contact of its deal's party-id;    *)
(* the units are those of the pending working-unit deals whose party-id is   *)
(* a key of the index, so a deal whose party-id is not a key yields no unit, *)
(* whatever its participants.                                                *)
C1_ResponsibleResolved ==
    UnitsParsed =>
        /\ Len(units) = Len(EmittingDeals)
        /\ \A k \in 1..Len(units) :
              /\ units[k].person_responsible \in IndexValues
              /\ k <= Len(EmittingDeals) =>
                    units[k].person_responsible =
                        DictValue(persons, Texts(EmittingDeals[k], "party-id")[1])

\* A pending working-unit deal is dropped although all its participants
\* resolve, its party-id being no key of the index.
C1_Witness ==
    /\ pc = "done"
    /\ units = <<>>
    /\ \E i \in 1..Len(Deals) :
          /\ IsUnitDeal(Deals[i]) /\ IsPending(Deals[i])
          /\ ~PartyResolves(Deals[i])
          /\ Len(PartyIdsOf(Deals[i])) = 2
          /\ Range(PartyIdsOf(Deals[i])) \subseteq IndexKeys

(* C2: the participants of every emitted WorkingUnit are the deal's          *)
(* participant ids without those that are no key of the index, each replaced *)
(* by its contact, in input order; an unresolved id raises nothing (the unit *)
(* is emitted all the same).                                                 *)
C2_ParticipantsResolved ==
    UnitsParsed =>
        /\ Len(units) = Len(EmittingDeals)
        /\ \A k \in 1..Len(units) :
              k <= Len(EmittingDeals) =>
                 LET ids == SelectSeq(PartyIdsOf(EmittingDeals[k]),
                                      LAMBDA x : x \in IndexKeys)
                 IN  units[k].participants =
                         [i \in 1..Len(ids) |-> DictValue(persons, ids[i])]

\* A unit is emitted for the deal with the participant ids B, C, of which only
\* C is indexed; another for the deal with the ids C, B.
C2_Witness ==
    /\ pc = "done"
    /\ IndexKeys = {"A", "C"}
    /\ Len(units) = 2
    /\ PartyIdsOf(EmittingDeals[1]) = <<"B", "C">>
    /\ PartyIdsOf(EmittingDeals[2]) = <<"C", "B">>
    /\ units[1].participants = <<DictValue(persons, "C")>>
    /\ units[2].participants = <<DictValue(persons, "C")>>

(* C10: a WorkingUnit is emitted only for the pending deals of the two       *)
(* working-unit categories (whose party-id resolves), with unit_type project *)
(* for the project id and support_unit for the support-unit id; for a deal   *)
(* of another category-id or another status parse_working_unit returns None  *)
(* and raises nothing.                                                       *)
C10_OnlyPendingUnits ==
    /\ UnitsParsed =>
          /\ Len(units) = Len(EmittingDeals)
          /\ \A k \in 1..Len(units) :
                k <= Len(EmittingDeals) =>
                   units[k].unit_type =
                      IF OneIn(EmittingDeals[k], "category-id", {PROJECT_ID})
                      THEN project ELSE support_unit
    /\ pc # "start" =>
          \A i \in 1..Len(Deals) :
             \/ /\ Len(Texts(Deals[i], "category-id")) = 1
                /\ ~IsUnitDeal(Deals[i])
             \/ /\ IsUnitDeal(Deals[i])
                /\ Len(Texts(Deals[i], "status")) = 1
                /\ ~IsPending(Deals[i])
             => parse_working_unit(Deals[i], persons) = Ok(None)

\* A pending deal of category 999 and a pending support-unit deal, the party
\* of both indexed: the run ends with the one support unit.
C10_Witness ==
    /\ pc = "done"
    /\ Len(Deals) = 2
    /\ OneIn(Deals[1], "category-id", {"999"})
    /\ IsPending(Deals[1]) /\ PartyResolves(Deals[1])
    /\ OneIn(Deals[2], "category-id", {SUPPORT_UNIT_ID})
    /\ Len(units) = 1
    /\ units[1].unit_type = support_unit

-----------------------------------------------------------------------------
\* The indices of the items of mentoring_spec that list mentee_id and whose
\* mentor id is a key of the index
ResolvedItems(mentee_id) ==
    {i \in 1..Len(mentoring_spec) :
        /\ mentoring_spec[i][1] \in IndexKeys
        /\ mentee_id \in Range(mentoring_spec[i][2])}

Max(S) == CHOOSE x \in S : \A y \in S : y <= x

MentorOf(id) == heap[DictValue(persons, id).ref].mentor

(* C3: in the mentorship pass a pair with an id that is no key of the index  *)
(* is skipped on its own: the pass raises nothing, and afterwards every      *)
(* indexed contact has the mentor of the last item of mentoring_spec that    *)
(* lists it with a resolving mentor, or none when no item does; contacts     *)
(* outside the index have no mentor.                                         *)
C3_UnresolvedPairSkipped ==
    /\ pc = "mentors_assigned" => error = None
    /\ MentorsAssigned =>
          /\ \A id \in IndexKeys :
                MentorOf(id) =
                   IF ResolvedItems(id) = {} THEN None
                   ELSE DictValue(persons, mentoring_spec[Max(ResolvedItems(id))][1])
          /\ \A r \in 1..Len(heap) : Ref(r) \notin IndexValues => heap[r].mentor = None

\* The candidates (B, [C]) and (A, [B, C]) with A and B indexed but not C: the
\* first candidate assigns nothing, B's mentor is A and A has none.
C3_Witness ==
    /\ pc = "done"
    /\ mentoring_spec = << <<"B", <<"C">>>>, <<"A", <<"B", "C">>>> >>
    /\ IndexKeys = {"A", "B"}
    /\ MentorOf("B") = DictValue(persons, "A")
    /\ MentorOf("A") = None

\* The indices of the mentoring deals that list mentee_id and whose mentor id
\* is a key of the index
ResolvedDeals(mentee_id) ==
    {i \in 1..Len(Deals) :
        /\ IsMentoringDeal(Deals[i])
        /\ PartyResolves(Deals[i])
        /\ mentee_id \in Range(PartyIdsOf(Deals[i]))}

(* C4, as claimed: after the run every indexed mentee of every mentoring     *)
(* deal whose mentor id is indexed has a mentor, also when several deals     *)
(* name the same mentor id.                                                  *)
C4_EveryDealProcessed ==
    pc = "done" =>
        \A id \in IndexKeys : ResolvedDeals(id) # {} => MentorOf(id) # None

(* C5, as claimed: a mentee listed by several mentoring deals whose mentor   *)
(* and mentee resolve has, after the run, the mentor of the last of them in  *)
(* the input order of the deals.                                             *)
C5_LastDealWins ==
    pc = "done" =>
        \A id \in IndexKeys :
            Cardinality(ResolvedDeals(id)) >= 2 =>
                MentorOf(id) =
                    DictValue(persons, Texts(Deals[Max(ResolvedDeals(id))], "party-id")[1])

(* C6: no add_all call is made before the contacts are built, the mentors    *)
(* assigned and the units resolved; a run that an extraction failure ended   *)
(* has stopped with that error and has persisted nothing.                    *)
C6_NoPartialPersistence ==
    /\ database # <<>> => pc \in {"persons_stored", "done"}
    /\ pc = "failed" =>
          /\ database = <<>>
          /\ error # None
          /\ ~ENABLED Next
    /\ pc # "failed" => error = None

\* A deal without its name ends the run after the contacts were built and the
\* mentors assigned; nothing is stored.
C6_Witness ==
    /\ pc = "failed"
    /\ error[1] = [where |-> "parse_working_units",
                   exc |-> "AssertionError: Child with tag 'name' not found."]
    /\ Len(heap) = 2
    /\ \E r \in 1..Len(heap) : heap[r].mentor # None
    /\ database = <<>>

-----------------------------------------------------------------------------
(* Specifications of single functions: the argument is drawn in the initial  *)
(* state, the one action applies the function; run_script stays idle.        *)

Idle ==
    /\ people_xml = None
    /\ deals_xml = None
    /\ pc = "idle"
    /\ heap = <<>>
    /\ persons = <<>>
    /\ mentoring_spec = <<>>
    /\ units = <<>>
    /\ database = <<>>
    /\ error = None

MaxChildren == 3

MaxTags == 2

\* xml_find(tag_name, xml) on a node of up to MaxChildren children
InitFind ==
    /\ Idle
    /\ fn_out = None
    /\ fn_in \in [tag_name : {"id", "name"},
                  xml : {Node("deal", cs) :
                            cs \in SeqsUpTo({Leaf(t, x) : t \in {"id", "name"},
                                                          x \in {"a", "b"}},
                                            MaxChildren)}]

ApplyXmlFind ==
    /\ fn_out = None
    /\ fn_out' = Some(xml_find(fn_in.tag_name, fn_in.xml))
    /\ UNCHANGED <<run_vars, fn_in>>

SpecFind == InitFind /\ [][ApplyXmlFind]_vars

\* The positions of the children of the argument that carry the tag asked for
Matches == {i \in 1..Len(fn_in.xml.children) : fn_in.xml.children[i].tag = fn_in.tag_name}

(* C7: xml_find returns the child when exactly one child has the tag; with   *)
(* none it raises the missing-child error, with two or more the              *)
(* too-many-children error, which differs from the former; in both cases it  *)
(* returns no value.                                                         *)
C7_FindExactlyOne ==
    fn_out # None =>
        LET out == fn_out[1]
            missing == "AssertionError: Child with tag '" \o fn_in.tag_name \o "' not found."
            ambiguous == "AssertionError: Too many children with tag '"
                             \o fn_in.tag_name \o "' found."
        IN  /\ Cardinality(Matches) = 1 =>
                  /\ out.ok
                  /\ \A i \in Matches : out.val = fn_in.xml.children[i]
            /\ Cardinality(Matches) = 0 =>
                  ~out.ok /\ out.val = None /\ out.exc = missing
            /\ Cardinality(Matches) >= 2 =>
                  ~out.ok /\ out.val = None /\ out.exc = ambiguous /\ out.exc # missing

\* xml_find has raised on a node with two children of the tag, and one other
C7_Witness ==
    /\ fn_out # None
    /\ Cardinality(Matches) = 2
    /\ Len(fn_in.xml.children) = 3
    /\ ~fn_out[1].ok

-----------------------------------------------------------------------------
\* Person.name of a person with up to MaxTags tags, known and unknown
InitName ==
    /\ Idle
    /\ fn_out = None
    /\ fn_in \in {Person(f, l, <<>>, <<>>, [i \in DOMAIN ts |-> Tag(ts[i])]) :
                     f \in {"Markus", ""}, l \in {"Miller", ""},
                     ts \in SeqsUpTo({TAGS[i][2] : i \in 1..Len(TAGS)} \cup {42},
                                     MaxTags)}

ApplyName ==
    /\ fn_out = None
    /\ fn_out' = Some(Person_name(fn_in))
    /\ UNCHANGED <<run_vars, fn_in>>

SpecName == InitName /\ [][ApplyName]_vars

\* The tag ids the argument carries
Carried == {fn_in.tags[i].tag_id : i \in 1..Len(fn_in.tags)}

\* s and label, with ", " between them when s is not empty
Listed(s, label) == IF s = "" THEN label ELSE s \o ", " \o label

(* C9: name is first_name, a space and last_name, followed, exactly when the *)
(* person carries a known tag, by the labels of the known tags it carries in *)
(* parentheses, in the order Pause, Intern, Newcomer, Intern (School), the   *)
(* last written Intern; only the set of known tag ids carried matters.       *)
C9_DisplayName ==
    fn_out # None =>
        LET l1 == IF 5979171 \in Carried THEN "Pause" ELSE ""
            l2 == IF 5363523 \in Carried THEN Listed(l1, "Intern") ELSE l1
            l3 == IF 5978316 \in Carried THEN Listed(l2, "Newcomer") ELSE l2
            l4 == IF 5417900 \in Carried THEN Listed(l3, "Intern") ELSE l3
        IN  fn_out[1] = fn_in.first_name \o " " \o fn_in.last_name \o
                            (IF l4 = "" THEN "" ELSE " (" \o l4 \o ")")

\* Markus Miller with the tags Intern (School) and Pause, in this order
C9_Witness ==
    /\ fn_out = Some("Markus Miller (Pause, Intern)")
    /\ fn_in.tags = <<Tag(5417900), Tag(5979171)>>

-----------------------------------------------------------------------------
\* The entities that differ from e in at most one of the fields
Variants(e, fields, Values) ==
    {e} \cup UNION {{[e EXCEPT ![f] = v] : v \in Values[f]} : f \in fields}

Emails == {[Email(a, l) EXCEPT !.id = i] :
              a \in {"hello@example.org", ""}, l \in {"Work", "Home"},
              i \in {None, Some(1)}}

PhoneNumbers == {[PhoneNumber(n, l) EXCEPT !.id = i] :
                    n \in {"+49017867", ""}, l \in {"Work", "Mobile"},
                    i \in {None, Some(1)}}

Tags == {[Tag(t) EXCEPT !.id = i] : t \in {42, 23}, i \in {None, Some(1)}}

PersonValues ==
    [id |-> {None, Some(1)},
     first_name |-> {"Markus", "Yannick"},
     last_name |-> {"Miller", ""},
     emails |-> {<<>>, <<Email("hello@example.org", "Work")>>},
     phone_numbers |-> {<<>>, <<PhoneNumber("+49017867", "Work")>>},
     tags |-> {<<>>, <<Tag(42)>>}]

Persons ==
    {[Person(v.first_name, v.last_name, v.emails, v.phone_numbers, v.tags)
         EXCEPT !.id = v.id] :
        v \in [id : PersonValues.id, first_name : PersonValues.first_name,
               last_name : PersonValues.last_name, emails : PersonValues.emails,
               phone_numbers : PersonValues.phone_numbers, tags : PersonValues.tags]}

UnitValues ==
    [id |-> {None, Some(1)},
     name |-> {"project1", ""},
     description |-> {"My description", ""},
     unit_type |-> {project, support_unit},
     overview_document |-> {"overview_document", ""},
     storage_url |-> {"storage_url", ""},
     slack_url |-> {"slack_url", ""}]

\* Working units of one responsible person and one participant
WorkingUnits ==
    {[WorkingUnit(v.name, v.description, v.overview_document, v.storage_url,
                  v.slack_url, v.unit_type,
                  Person("Markus", "Miller", <<>>, <<>>, <<>>),
                  <<Person("Yannick", "", <<>>, <<>>, <<>>)>>)
         EXCEPT !.id = v.id] :
        v \in [id : UnitValues.id, name : UnitValues.name,
               description : UnitValues.description,
               unit_type : UnitValues.unit_type,
               overview_document : UnitValues.overview_document,
               storage_url : UnitValues.storage_url,
               slack_url : UnitValues.slack_url]}

\* self == other on two entities of one kind
InitEq ==
    /\ Idle
    /\ fn_out = None
    /\ fn_in \in (Emails \X Emails) \cup (PhoneNumbers \X PhoneNumbers)
                 \cup (Tags \X Tags)
                 \cup UNION {{<<a, b>> :
                                b \in Variants(a, DOMAIN PersonValues, PersonValues)} :
                             a \in Persons}
                 \cup UNION {{<<a, b>> :
                                b \in Variants(a, DOMAIN UnitValues, UnitValues)} :
                             a \in WorkingUnits}

ApplyEq ==
    /\ fn_out = None
    /\ fn_out' = Some(entity_eq(fn_in[1], fn_in[2]))
    /\ UNCHANGED <<run_vars, fn_in>>

SpecEq == InitEq /\ [][ApplyEq]_vars

\* The scalar and owned-collection attributes of an entity, by its kind
OwnAttributes(e) ==
    CASE e.kind = "Email" -> <<e.address, e.location>>
      [] e.kind = "PhoneNumber" -> <<e.number, e.location>>
      [] e.kind = "Tag" -> <<e.tag_id>>
      [] e.kind = "Person" ->
            <<e.first_name, e.last_name, e.emails, e.phone_numbers, e.tags>>
      [] e.kind = "WorkingUnit" ->
            <<e.name, e.description, e.unit_type, e.overview_document,
              e.storage_url, e.slack_url>>

(* C8, as claimed: two entities of one kind are equal if and only if their   *)
(* ids are equal (or both unset) and all their own scalar and                *)
(* owned-collection attributes are equal; so two WorkingUnits that differ in *)
(* the storage location or the chat channel are not equal.                   *)
C8_EqualityIsStructural ==
    fn_out # None =>
        (fn_out[1] <=> /\ fn_in[1].id = fn_in[2].id
                       /\ OwnAttributes(fn_in[1]) = OwnAttributes(fn_in[2]))

-----------------------------------------------------------------------------
(* The mentorship pass applied twice: run_script up to the end of its loops, *)
(* and the loops of lines 179-185 once more over the same persons and the    *)
(* same mentoring_spec.                                                      *)

MaxPassDeals == 2

\* The mentoring deals of the runs, and one whose only mentee is a mentor
PassDeals ==
    MentoringDeals \cup {deal_xml(MENTORING_DEAL_ID, "pending", "A", <<"B">>, <<>>)}

\* The loops once more; fn_in keeps the heap they started from.
AssignMentorsAgain ==
    /\ pc = "mentors_assigned"
    /\ fn_in' = Some(heap)
    /\ heap' = assign_mentors(heap, persons, mentoring_pairs(mentoring_spec))
    /\ pc' = "mentors_assigned_twice"
    /\ UNCHANGED <<people_xml, deals_xml, persons, mentoring_spec, units,
                   database, error, fn_out>>

NextPass ==
    \/ ParsePeople
    \/ ParseMentoring
    \/ AssignMentors
    \/ AssignMentorsAgain

InitPass == RunInit(PeopleDocs, DealDocs(PassDeals, MaxPassDeals))

SpecPass == InitPass /\ [][NextPass]_vars

(* C11: the mentorship pass is idempotent: after the pass has run a second   *)
(* time over the same contact index and the same mentoring deals, every      *)
(* contact has the mentor it had after the first pass.                       *)
C11_PassIdempotent ==
    pc = "mentors_assigned_twice" =>
        /\ Len(heap) = Len(fn_in[1])
        /\ \A i \in 1..Len(heap) : heap[i].mentor = fn_in[1][i].mentor

\* The pass has run twice over the deals (A, [C]) and (B, [C]) with A, B and C
\* indexed: each pass sets C's mentor to A and then to B.
C11_Witness ==
    /\ pc = "mentors_assigned_twice"
    /\ {"A", "B", "C"} \subseteq IndexKeys
    /\ mentoring_spec = << <<"A", <<"C">> >>, <<"B", <<"C">> >> >>
    /\ MentorOf("C") = DictValue(persons, "B")

-----------------------------------------------------------------------------
\* The deal has exactly one name, one background and one parties child, and
\* every child of its parties has exactly one id
WellShaped(deal) ==
    /\ \A tag_name \in {"name", "background", "parties"} :
           Len(findall(tag_name, deal)) = 1
    /\ \A i \in 1..Len(findall("parties", deal)[1].children) :
           Len(findall("id", findall("parties", deal)[1].children[i])) = 1

(* C14, as claimed: a shape error is never absorbed: when a pending deal of  *)
(* a working-unit category lacks or repeats its name, background or parties  *)
(* (or has a participant without exactly one id), the run is aborted, so     *)
(* parse_working_units does not return, whether or not the deal's party-id   *)
(* is a key of the contact index.                                            *)
C14_ShapeErrorsAbort ==
    UnitsParsed =>
        \A k \in 1..Len(Deals) :
            IsUnitDeal(Deals[k]) /\ IsPending(Deals[k]) => WellShaped(Deals[k])

-----------------------------------------------------------------------------
(* Runs over people that share an external id *)

MaxDuplicateDeals == 2

\* Two well-formed persons with the external id "A" and one with "B"
DuplicatePersonNodes ==
    {person_xml("A", "Markus", "Miller A", <<>>, <<>>, <<>>),
     person_xml("A", "Anna", "Other A", <<>>, <<>>, <<>>),
     person_xml("B", "Markus", "Miller B", <<>>, <<>>, <<>>)}

\* Deals that look "A" up as mentor, mentee, responsible party and participant
DuplicateDeals ==
    {deal_xml(MENTORING_DEAL_ID, "pending", "A", <<"B">>, <<>>),
     deal_xml(MENTORING_DEAL_ID, "pending", "B", <<"A">>, <<>>),
     deal_xml(PROJECT_ID, "pending", "A", <<"B">>, <<>>),
     deal_xml(PROJECT_ID, "pending", "B", <<"A">>, <<>>)}

InitDuplicates ==
    RunInit({Node("people", q) : q \in Arrangements(DuplicatePersonNodes)},
            DealDocs(DuplicateDeals, MaxDuplicateDeals))

SpecDuplicates == InitDuplicates /\ [][Next]_vars

People == people_xml.children

\* The contact built from the last person of the input that carries the id
Last(id) ==
    Ref(Max({i \in 1..Len(People) : Texts(People[i], "id") = <<id>>}))

(* C15: the contact index maps each external id of the people to the last    *)
(* contact in input order that carries it, a repeated id raising nothing;    *)
(* and the lookups resolve to that contact: a mentee's mentor, the contact   *)
(* that receives a mentor, a unit's person_responsible and its participants  *)
(* are the last contacts of their ids.                                       *)
C15_LastContactWins ==
    /\ pc # "start" =>
          /\ error = None
          /\ IndexKeys = {Texts(People[i], "id")[1] : i \in 1..Len(People)}
          /\ \A id \in IndexKeys : DictValue(persons, id) = Last(id)
    /\ MentorsAssigned =>
          /\ \A id \in IndexKeys :
                 heap[Last(id).ref].mentor =
                     IF ResolvedItems(id) = {} THEN None
                     ELSE Last(mentoring_spec[Max(ResolvedItems(id))][1])
          /\ \A i \in 1..Len(heap) :
                 Ref(i) \notin IndexValues => heap[i].mentor = None
    /\ UnitsParsed =>
          /\ Len(units) = Len(EmittingDeals)
          /\ \A j \in 1..Len(units) :
                 /\ units[j].person_responsible =
                        Last(Texts(EmittingDeals[j], "party-id")[1])
                 /\ LET found == SelectSeq(PartyIdsOf(EmittingDeals[j]),
                                           LAMBDA x : x \in IndexKeys)
                    IN  units[j].participants =
                            [i \in 1..Len(found) |-> Last(found[i])]

\* The people carry "A", "B" and "A" again; the run has ended with the third
\* contact indexed under "A", at the place of the first, as B's mentor and
\* as the responsible party of the unit.
C15_Witness ==
    /\ pc = "done"
    /\ persons = << <<"A", Ref(3)>>, <<"B", Ref(2)>> >>
    /\ heap[2].mentor = Ref(3)
    /\ Len(units) = 1
    /\ units[1].person_responsible = Ref(3)
    /\ units[1].participants = <<Ref(2)>>

(* C16: referential closure of what is persisted. The first add_all call     *)
(* gets the contact batch, which holds the index values, one contact per     *)
(* distinct external id of the people and none twice; the mentor of every    *)
(* contact of the batch is in the batch; the second call gets the units,     *)
(* after the contacts, and the person_responsible and the participants of    *)
(* every unit are in the contact batch.                                      *)
C16_ReferentialClosure ==
    /\ Len(database) <= 2
    /\ database # <<>> =>
          LET contacts == database[1]
          IN  /\ Range(contacts) = IndexValues
              /\ Len(contacts) = Cardinality(Range(contacts))
              /\ Len(contacts) =
                     Cardinality({Texts(People[i], "id")[1] : i \in 1..Len(People)})
              /\ \A i \in 1..Len(contacts) :
                     heap[contacts[i].ref].mentor \in {None} \cup Range(contacts)
              /\ \A j \in 1..Len(units) :
                     /\ units[j].person_responsible \in Range(contacts)
                     /\ Range(units[j].participants) \subseteq Range(contacts)
    /\ Len(database) = 2 => database[2] = units

\* The people carry "A" twice and then "B"; B mentors A and is responsible for
\* a unit A takes part in: both batches are stored and refer to the second
\* contact of "A" only.
C16_Witness ==
    /\ pc = "done"
    /\ Len(heap) = 3
    /\ database[1] = <<Ref(2), Ref(3)>>
    /\ heap[2].mentor = Ref(3)
    /\ Len(database[2]) = 1
    /\ database[2][1].person_responsible = Ref(3)
    /\ database[2][1].participants = <<Ref(2)>>

\* Every Person object of the run
Contacts == {Ref(i) : i \in 1..Len(heap)}

(* C13: mentees is the inverse of mentor: once the contacts are persisted,   *)
(* for all persons p and q, p is in q.mentees if and only if p.mentor is q;  *)
(* so a person who is nobody's mentor has no mentees.                        *)
C13_MenteesInverse ==
    pc \in {"persons_stored", "done"} =>
        \A p \in Contacts, q \in Contacts :
            p \in mentees(heap, units, database, q) <=> heap[p.ref].mentor = q

\* The people carry "A" twice and then "B", and B mentors A: the contacts are
\* persisted, B's mentees are the second contact of "A", which has none, and
\* the first contact of "A" is not stored.
C13_Witness ==
    /\ pc = "persons_stored"
    /\ Len(heap) = 3
    /\ mentees(heap, units, database, Ref(3)) = {Ref(2)}
    /\ mentees(heap, units, database, Ref(2)) = {}
    /\ Ref(1) \notin stored(heap, units, database)

-----------------------------------------------------------------------------
(* SerloDatabase on its own: entities built beforehand, then any add_all     *)
(* calls, each with a collection of up to two of them.                       *)

MaxCalls == 2

\* Three persons: without mentors, with one mentor, with two who mentor each
\* other
PersonHeaps ==
    LET p(last_name) == Person("Markus", last_name, <<>>, <<>>, <<>>)
        h == <<p("Miller A"), p("Miller B"), p("Miller C")>>
    IN  {h,
         [h EXCEPT ![1].mentor = Ref(2)],
         [h EXCEPT ![1].mentor = Ref(2), ![2].mentor = Ref(1)]}

\* A project and a support unit over those persons
UnitLists ==
    LET project1 == WorkingUnit("project1", "My description", "", "", "",
                                project, Ref(1), <<Ref(2)>>)
        unit1 == WorkingUnit("Support Unit Master", "", "", "", "",
                             support_unit, Ref(3), <<>>)
    IN  {<<>>, <<project1>>, <<unit1>>, <<project1, unit1>>}

\* The collections of at most two of the instances of S
Batches(S) ==
    {<<>>} \cup {<<o>> : o \in S}
           \cup {q \in {<<o1, o2>> : o1 \in S, o2 \in S} : q[1] # q[2]}

InitDatabase ==
    /\ people_xml = None
    /\ deals_xml = None
    /\ pc = "idle"
    /\ heap \in PersonHeaps
    /\ persons = <<>>
    /\ mentoring_spec = <<>>
    /\ units \in UnitLists
    /\ database = <<>>
    /\ error = None
    /\ fn_in = None
    /\ fn_out = None

\* database.add_all(instances)
AddAll ==
    /\ Len(database) < MaxCalls
    /\ \E instances \in Batches({Ref(i) : i \in 1..Len(heap)} \cup Range(units)) :
           database' = add_all(database, instances)
    /\ UNCHANGED <<people_xml, deals_xml, pc, heap, persons, mentoring_spec,
                   units, error, fn_in, fn_out>>

SpecDatabase == InitDatabase /\ [][AddAll]_vars

\* The instances handed to add_all so far
Added == UNION {Range(database[k]) : k \in 1..Len(database)}

\* One of x and y refers to the other: as mentor, as person_responsible or as
\* participant
Linked(x, y) ==
    LET refers(a, b) ==
            IF IsPerson(a) THEN heap[a.ref].mentor = b
            ELSE b = a.person_responsible \/ b \in Range(a.participants)
    IN  refers(x, y) \/ refers(y, x)

\* S and what chains of such references connect to S
RECURSIVE Connected(_)
Connected(S) ==
    LET T == S \cup {o \in Contacts \cup Range(units) : \E x \in S : Linked(x, o)}
    IN  IF T = S THEN S ELSE Connected(T)

\* projects and support_units are the stored units of their type; a call
\* with an empty collection changed nothing
TypedAndUnchangedByNothing ==
    /\ projects(heap, units, database) =
           {u \in working_units(heap, units, database) : u.unit_type = project}
    /\ support_units(heap, units, database) =
           {u \in working_units(heap, units, database) : u.unit_type = support_unit}
    /\ projects(heap, units, database) \cap support_units(heap, units, database) = {}
    /\ projects(heap, units, database) \cup support_units(heap, units, database)
           = working_units(heap, units, database)
    /\ \A k \in 1..Len(database) :
           database[k] = <<>> =>
               stored(heap, units, SubSeq(database, 1, k))
                   = stored(heap, units, SubSeq(database, 1, k - 1))

(* C12, as claimed: after any add_all calls persons returns exactly the      *)
(* persons handed to add_all so far and working_units exactly the working    *)
(* units handed to it so far; projects and support_units are the stored      *)
(* units of their type, disjoint and covering; an empty call changes         *)
(* nothing.                                                                  *)
C12_ExactlyTheAdded ==
    /\ SerloDatabase_persons(heap, units, database) = {o \in Added : IsPerson(o)}
    /\ working_units(heap, units, database) = {o \in Added : ~IsPerson(o)}
    /\ TypedAndUnchangedByNothing

(* C12, amended: after any add_all calls persons returns every person handed *)
(* to add_all so far and working_units every working unit handed to it so    *)
(* far, and whatever else they return is connected to an added entity by     *)
(* mentor, person_responsible or participants references; projects and       *)
(* support_units are the stored units of their type, disjoint and covering;  *)
(* an empty call changes nothing.                                            *)
C12_AtLeastTheAdded ==
    /\ {o \in Added : IsPerson(o)} \subseteq SerloDatabase_persons(heap, units, database)
    /\ {o \in Added : ~IsPerson(o)} \subseteq working_units(heap, units, database)
    /\ stored(heap, units, database) \subseteq Connected(Added)
    /\ TypedAndUnchangedByNothing

\* An empty call and then a call with the support unit alone: the unit is
\* stored, and so is its responsible person, which no call was handed.
C12_Witness ==
    /\ pc = "idle"
    /\ Len(database) = 2
    /\ database[1] = <<>>
    /\ Len(database[2]) = 1
    /\ support_units(heap, units, database) = Range(database[2])
    /\ projects(heap, units, database) = {}
    /\ SerloDatabase_persons(heap, units, database) = {Ref(3)}


=============================================================================
